---- MODULE Spec2Model ----
(***************************************************************************)
(* State-machine model of the GrokParty conversation engine                *)
(* (src/src/features/conversation/conversationEngine.ts), the session      *)
(* store it writes to (src/src/state/sessionStore.ts) and the streaming    *)
(* client it consumes (GrokClient.streamChatCompletion).                   *)
(*                                                                         *)
(* JavaScript is run-to-completion: code between two awaits of a pending   *)
(* promise runs without interleaving.  The run loop is cut into steps at   *)
(* its control points; `pc` names the position.  Positions in Suspended    *)
(* are the real suspension points (timer, poll, network); the public       *)
(* methods (called from UI event handlers) are enabled only there.         *)
(* Strings are sequences of one-character strings.                         *)
(***************************************************************************)
EXTENDS Integers, Sequences, FiniteSets, TLC

\* ---------------------------------------------------------------- bounds
MaxTurns == 2
MaxInterjections == 1
MaxRequeues == 1
MaxChunks == 1
MaxAppends == 14
MaxTextLen == 6
MaxRawLen == 3

\* ------------------------------------------------------ program constants
HistoryCap == 12
PromptWindow == 6

\* ------------------------------------------------------------- alphabets
Riley == <<"R", "i">>
DefaultUser == <<"U", "s", "e", "r">>
NoName == <<>>
AuthorNames == {NoName, Riley}
InterjectionTexts == {<<"h", "i">>, <<" ">>}
RequeueTexts == {<<"y", "o">>}
Deltas == {<<"o", " ", "[", "1", "]">>}
FinalTexts == {<<"a", "c", "k">>, <<>>}
ErrorMessages == {"Grok API request failed", "Failed to fetch"}
Configs ==
    {[n |-> 1, userName |-> NoName], [n |-> 2, userName |-> NoName],
     [n |-> 2, userName |-> Riley], [n |-> 3, userName |-> NoName]}
DisplayNames == <<(<<"A">>), (<<"B">>), (<<"C">>)>>
RawResponses == {<<>>, <<"B", "|", "x">>, <<" ", "c", " ", "|">>, <<"Z", "|", "x">>, <<"A">>}

VARIABLES
    \* ConversationEngine fields
    abort, paused, pauseRequested, running, currentController,
    history, pendingUserMessages, skipDelayNextTurn, userDisplayName,
    \* session store
    status, sessionId, messages, lastError, config,
    \* position and locals of start()/runLoop/emitMessage
    pc, runConfig, currentSpeaker, nextSpeaker, isFirst, messageId, thrown,
    \* the streaming call in flight
    stream, collectedText, chunks,
    \* what the engine has done, recorded for the properties
    activeLoops, nextId, interjections, lastPrompt, lastToast, emitOutcome,
    selectPath, pauseMark, stopMark, ignoredCall, interjectStage, interjectText

flagVars == <<abort, paused, pauseRequested, running, currentController>>
histVars == <<history, pendingUserMessages, skipDelayNextTurn, userDisplayName>>
engineVars == <<flagVars, histVars>>
storeVars == <<status, sessionId, messages, lastError, config>>
localVars == <<runConfig, currentSpeaker, nextSpeaker, isFirst, messageId, thrown>>
streamVars == <<stream, collectedText, chunks>>
countVars == <<activeLoops, nextId, interjections>>
obsVars == <<lastPrompt, lastToast, emitOutcome, selectPath, pauseMark, stopMark>>
markVars == <<interjectStage, interjectText>>
vars == <<engineVars, storeVars, pc, localVars, streamVars, countVars, obsVars,
          markVars, ignoredCall>>

\* ------------------------------------------------------- string helpers
IsSpace(c) == c \in {" ", "\n", "\t"}

RECURSIVE TrimStart(_)
TrimStart(s) == IF s # <<>> /\ IsSpace(Head(s)) THEN TrimStart(Tail(s)) ELSE s

RECURSIVE TrimEnd(_)
TrimEnd(s) == IF s # <<>> /\ IsSpace(s[Len(s)]) THEN TrimEnd(SubSeq(s, 1, Len(s) - 1)) ELSE s

Trim(s) == TrimEnd(TrimStart(s))

StartsWith(s, p) == Len(s) >= Len(p) /\ SubSeq(s, 1, Len(p)) = p

Contains(s, sub) == \E i \in 0..(Len(s) - Len(sub)) : SubSeq(s, i + 1, i + Len(sub)) = sub

RECURSIVE JoinLines(_)
JoinLines(entries) ==
    IF entries = <<>> THEN <<>>
    ELSE IF Len(entries) = 1 THEN entries[1]
    ELSE entries[1] \o <<"\n">> \o JoinLines(Tail(entries))

LastN(s, n) == IF Len(s) <= n THEN s ELSE SubSeq(s, Len(s) - n + 1, Len(s))

\* ----------------------------------------------------- citation sanitizer
\* Each regular expression is an operator giving the length of its match
\* anchored at position i (0: no match there); optional parts are passed on
\* as parameters, as the regex engine passes on its position.
IsDigit(c) == c \in {"0", "1", "2", "3", "4", "5", "6", "7", "8", "9"}

InClass(kind, c) ==
    CASE kind = "digit" -> IsDigit(c)
      [] kind = "space" -> IsSpace(c)
      [] kind = "blank" -> c \in {" ", "\t"}
      [] kind = "nonspace" -> ~IsSpace(c)
      [] kind = "newline" -> c = "\n"
      [] kind = "notparen" -> c # ")"

\* length of the maximal run of characters of a class starting at position i
RECURSIVE RunLen(_, _, _)
RunLen(kind, s, i) ==
    IF i > Len(s) THEN 0
    ELSE IF InClass(kind, s[i]) THEN 1 + RunLen(kind, s, i + 1) ELSE 0

LitAt(s, i, lit) == i + Len(lit) - 1 <= Len(s) /\ SubSeq(s, i, i + Len(lit) - 1) = lit

AddIfPositive(prefix, rest) == IF rest = 0 THEN 0 ELSE prefix + rest

\* /\[\d+\]/ : d digits were read after the "[" at i
BracketClose(s, i, d) ==
    IF d >= 1 /\ i + 1 + d <= Len(s) /\ s[i + 1 + d] = "]" THEN d + 2 ELSE 0

BracketNumLen(s, i) ==
    IF i <= Len(s) /\ s[i] = "[" THEN BracketClose(s, i, RunLen("digit", s, i + 1)) ELSE 0

\* /\([^)]*\)/ : n characters other than ")" were read after the "(" at i
ParenClose(s, i, n) == IF i + 1 + n <= Len(s) THEN n + 2 ELSE 0

ParenLen(s, i) ==
    IF i <= Len(s) /\ s[i] = "(" THEN ParenClose(s, i, RunLen("notparen", s, i + 1)) ELSE 0

WithUrlTail(s, i, b) == IF b = 0 THEN 0 ELSE AddIfPositive(b, ParenLen(s, i + b))

\* CITATION_WITH_URL_REGEX /\[\d+\]\([^)]*\)/
CitationWithUrlLen(s, i) == WithUrlTail(s, i, BracketNumLen(s, i))

\* CITATION_IMAGE_REGEX /!\[\d+\]\([^)]*\)/
CitationImageLen(s, i) ==
    IF i <= Len(s) /\ s[i] = "!" THEN AddIfPositive(1, CitationWithUrlLen(s, i + 1)) ELSE 0

\* position of the last "\n" in s[from..to], 0 when there is none
RECURSIVE LastNewline(_, _, _)
LastNewline(s, from, to) ==
    IF to < from THEN 0
    ELSE IF s[to] = "\n" THEN to ELSE LastNewline(s, from, to - 1)

\* CITATION_DEFINITION_REGEX /^\[\d+\]:\s*https?:\/\/\S+\s*(?:\n|$)/gm.
\* The trailing \s* is greedy: it runs to the end of the input, or else
\* backtracks to the last newline of the whitespace run.
DefNewline(i, nl) == IF nl > 0 THEN nl + 1 - i ELSE 0

DefEnd(s, i, from, e) ==
    IF e > Len(s) THEN e - i ELSE DefNewline(i, LastNewline(s, from, e - 1))

DefTrail(s, i, u, n) ==
    IF n = 0 THEN 0 ELSE DefEnd(s, i, u + n, u + n + RunLen("space", s, u + n))

DefUrl(s, i, u) == DefTrail(s, i, u, RunLen("nonspace", s, u))

DefScheme(s, i, h) ==
    IF LitAt(s, h, <<"h", "t", "t", "p", "s", ":", "/", "/">>) THEN DefUrl(s, i, h + 8)
    ELSE IF LitAt(s, h, <<"h", "t", "t", "p", ":", "/", "/">>) THEN DefUrl(s, i, h + 7)
    ELSE 0

DefAfterBracket(s, i, b) ==
    IF b = 0 \/ ~LitAt(s, i + b, <<":">>) THEN 0
    ELSE DefScheme(s, i, i + b + 1 + RunLen("space", s, i + b + 1))

CitationDefinitionLen(s, i) ==
    IF i = 1 \/ (i > 1 /\ i - 1 <= Len(s) /\ s[i - 1] = "\n")
    THEN DefAfterBracket(s, i, BracketNumLen(s, i)) ELSE 0

AtLeast(n, min) == IF n >= min THEN n ELSE 0

\* /[ \t]{2,}/
BlankRunLen(s, i) == AtLeast(RunLen("blank", s, i), 2)

\* /\s+\n/ : the greedy \s+ backtracks to the last newline of the run
SpaceBeforeNewlineLen(s, i) ==
    DefNewline(i, LastNewline(s, i + 1, i + RunLen("space", s, i) - 1))

\* /\n{3,}/
NewlineRunLen(s, i) == AtLeast(RunLen("newline", s, i), 3)

MatchLen(rx, s, i) ==
    CASE rx = "definition" -> CitationDefinitionLen(s, i)
      [] rx = "image" -> CitationImageLen(s, i)
      [] rx = "withUrl" -> CitationWithUrlLen(s, i)
      [] rx = "standalone" -> BracketNumLen(s, i)
      [] rx = "blanks" -> BlankRunLen(s, i)
      [] rx = "spaceNewline" -> SpaceBeforeNewlineLen(s, i)
      [] rx = "newlines" -> NewlineRunLen(s, i)

\* String.prototype.replace with a global regex: leftmost non-overlapping matches
RECURSIVE ReplaceFrom(_, _, _, _)
ReplaceStep(rx, rep, s, i, m) ==
    IF m > 0 THEN rep \o ReplaceFrom(rx, rep, s, i + m)
    ELSE <<s[i]>> \o ReplaceFrom(rx, rep, s, i + 1)

ReplaceFrom(rx, rep, s, i) ==
    IF i > Len(s) THEN <<>> ELSE ReplaceStep(rx, rep, s, i, MatchLen(rx, s, i))

\* the replace calls of stripCitationArtifacts, in order (lines 550-558)
StripRules ==
    <<[rx |-> "definition", rep |-> <<>>], [rx |-> "image", rep |-> <<>>],
      [rx |-> "withUrl", rep |-> <<>>], [rx |-> "standalone", rep |-> <<>>],
      [rx |-> "blanks", rep |-> <<" ">>], [rx |-> "spaceNewline", rep |-> <<"\n">>],
      [rx |-> "newlines", rep |-> <<"\n", "\n">>]>>

RECURSIVE ApplyRules(_, _)
ApplyRules(rules, s) ==
    IF rules = <<>> THEN s
    ELSE ApplyRules(Tail(rules), ReplaceFrom(Head(rules).rx, Head(rules).rep, s, 1))

stripCitationArtifacts(value) ==
    IF value = <<>> THEN <<>> ELSE ApplyRules(StripRules, value)

\* ------------------------------------------------------------ data model
Null == "null"
NoSpeaker == 0
SpeakerFallbackName == <<"S", "p", "e", "a", "k", "e", "r">>

Participants(cfg) == 1..cfg.n

\* config.userName?.trim() || 'User'
ConfiguredUserName(cfg) ==
    IF Trim(cfg.userName) = <<>> THEN DefaultUser ELSE Trim(cfg.userName)

Suspended == pc \in {"idle", "emit", "delay", "poll1", "poll2", "poll3", "selecting"}

\* ----------------------------------------------------------- HistoryLog
trimHistoryNewestOut(h) ==
    IF Len(h) > HistoryCap THEN SubSeq(h, 1, HistoryCap) ELSE h

\* lines 394-398
trimHistory(h) ==
    IF Len(h) > HistoryCap THEN SubSeq(h, Len(h) - HistoryCap + 1, Len(h)) ELSE h

recordHistoryEntry(h, name, content) ==
    LET trimmedContent == Trim(content)
        trimmedName == IF Trim(name) = <<>> THEN SpeakerFallbackName ELSE Trim(name)
    IN IF trimmedContent = <<>> THEN h
       ELSE trimHistory(Append(h, trimmedName \o <<":", " ">> \o trimmedContent))

consumedHistoryNone(h, name, pending) == h

\* the history after consumePendingUserMessages
RECURSIVE consumedHistory(_, _, _)
consumedHistory(h, name, pending) ==
    IF pending = <<>> THEN h
    ELSE consumedHistory(recordHistoryEntry(h, name, Head(pending)), name, Tail(pending))

\* --------------------------------------------------------- PromptBuilder
\* The user-role message of buildPrompt.  The fixed sentences are kept as
\* fields: `recent` is the text of the "latest messages" section, `address`
\* the name of the "address them directly using the name" instruction
\* (NoName when that instruction is absent).
buildPrompt(cfg, speaker, h, first) ==
    IF first
    THEN [first |-> TRUE, speaker |-> speaker,
          others |-> {DisplayNames[q] : q \in Participants(cfg) \ {speaker}},
          recent |-> <<>>, address |-> NoName]
    ELSE LET userName == ConfiguredUserName(cfg)
             latestEntry == IF h = <<>> THEN <<>> ELSE h[Len(h)]
             userInterjected == StartsWith(latestEntry, userName \o <<":">>)
         IN [first |-> FALSE, speaker |-> speaker, others |-> {},
             recent |-> JoinLines(LastN(h, PromptWindow)),
             address |-> IF userInterjected THEN userName ELSE NoName]

NoPrompt == [first |-> FALSE, speaker |-> NoSpeaker, others |-> {}, recent |-> <<>>, address |-> NoName]

\* ------------------------------------------------------- SpeakerSelector
RECURSIVE IndexOfPipe(_, _)
IndexOfPipe(s, i) ==
    IF i > Len(s) THEN 0 ELSE IF s[i] = "|" THEN i ELSE IndexOfPipe(s, i + 1)

\* raw.split('|')[0]
BeforePipe(s) ==
    LET k == IndexOfPipe(s, 1) IN IF k = 0 THEN s ELSE SubSeq(s, 1, k - 1)

LowerChar(c) ==
    CASE c = "A" -> "a" [] c = "B" -> "b" [] c = "C" -> "c" [] c = "Z" -> "z" [] OTHER -> c

toLowerCase(s) == [i \in 1..Len(s) |-> LowerChar(s[i])]

matchParticipantExactCase(cfg, raw) ==
    LET candidateName == Trim(BeforePipe(raw))
        hits == {q \in Participants(cfg) : DisplayNames[q] = candidateName}
    IN IF hits = {} THEN NoSpeaker ELSE CHOOSE q \in hits : \A r \in hits : q <= r

\* participants.find(...) on the display name: the first match, NoSpeaker when none
matchParticipant(cfg, raw) ==
    LET candidateName == Trim(BeforePipe(raw))
        hits == {q \in Participants(cfg) :
                    toLowerCase(DisplayNames[q]) = toLowerCase(candidateName)}
    IN IF hits = {} THEN NoSpeaker ELSE CHOOSE q \in hits : \A r \in hits : q <= r

sameParticipant(cfg, current) == current

\* chooseNextSpeaker with two participants (line 338)
otherParticipant(cfg, current) ==
    LET others == {q \in Participants(cfg) : q # current}
    IN IF others = {} THEN current ELSE CHOOSE q \in others : \A r \in others : q <= r

randomOptionsAll(cfg, excludeId) == Participants(cfg)

randomOptionsNull(cfg, excludeId) == {NoSpeaker}

\* the set pickRandomParticipant draws from
randomOptions(cfg, excludeId) ==
    LET options == Participants(cfg) \ {excludeId}
    IN IF options = {} THEN {1} ELSE options

\* ---------------------------------------------------------- session store
setStatusError(next, prevError) == IF next = "error" THEN prevError ELSE Null

keepStatus(error, prevStatus) == prevStatus

setErrorStatus(error, prevStatus) == IF error # "" THEN "error" ELSE prevStatus

newMessageStreaming(id, speaker) ==
    [id |-> id, role |-> "assistant", speakerId |-> speaker, content |-> <<>>,
     status |-> "streaming"]

\* the message emitMessage appends (lines 260-267); createdAt is left out
newMessage(id, speaker) ==
    [id |-> id, role |-> "assistant", speakerId |-> speaker, content |-> <<>>,
     status |-> "pending"]

updateMessage(msgs, id, newStatus, newContent) ==
    [i \in 1..Len(msgs) |->
        IF msgs[i].id = id
        THEN [msgs[i] EXCEPT !.status = newStatus, !.content = newContent]
        ELSE msgs[i]]

keepMessages(msgs) == msgs

\* clearMessages (sessionStore line 241)
clearMessages(msgs) == <<>>

contentOf(msgs, id) ==
    LET hits == {i \in 1..Len(msgs) : msgs[i].id = id}
    IN IF hits = {} THEN <<>> ELSE msgs[CHOOSE i \in hits : TRUE].content

\* ------------------------------------------------------------------ Init
Init ==
    /\ abort = FALSE /\ paused = FALSE /\ pauseRequested = FALSE /\ running = FALSE
    /\ currentController = "null"
    /\ history = <<>> /\ pendingUserMessages = <<>> /\ skipDelayNextTurn = FALSE
    /\ userDisplayName = DefaultUser
    /\ status = "idle" /\ sessionId = 0 /\ messages = <<>> /\ lastError = Null
    /\ config \in Configs
    /\ pc = "idle" /\ runConfig = config
    /\ currentSpeaker = NoSpeaker /\ nextSpeaker = NoSpeaker
    /\ isFirst = FALSE /\ messageId = 0 /\ thrown = ""
    /\ stream = "none" /\ collectedText = <<>> /\ chunks = 0
    /\ activeLoops = 0 /\ nextId = 1 /\ interjections = 0
    /\ lastPrompt = NoPrompt /\ lastToast = "none"
    /\ emitOutcome = "none" /\ selectPath = "none" /\ pauseMark = 0 /\ stopMark = FALSE
    /\ ignoredCall = "none" /\ interjectStage = "none" /\ interjectText = <<>>

\* ----------------------------------------------------------- emitMessage
\* the speaker of the turn being emitted
EmitSpeaker == IF isFirst THEN currentSpeaker ELSE nextSpeaker

\* emitMessage up to its first suspension (lines 256-289): the status, the
\* pending message, the prompt, a fresh AbortController, the streaming request
EmitBegin(baseMessages, speaker, first, h, cfg) ==
    /\ status' = (IF first THEN "connecting" ELSE "streaming")
    /\ lastError' = setStatusError(IF first THEN "connecting" ELSE "streaming", lastError)
    /\ messages' = Append(baseMessages, newMessage(nextId, speaker))
    /\ lastPrompt' = buildPrompt(cfg, speaker, h, first)
    /\ currentController' = "live"
    /\ stream' = "fetch" /\ collectedText' = <<>> /\ chunks' = 0
    /\ messageId' = nextId /\ nextId' = nextId + 1
    /\ isFirst' = first
    /\ emitOutcome' = "inflight" /\ selectPath' = "none"
    /\ interjectStage' = (IF interjectStage = "consumed" THEN "prompted"
                          ELSE IF interjectStage = "consumedMid" THEN "promptedMid"
                          ELSE "none")
    /\ interjectText' = (IF interjectStage \in {"consumed", "consumedMid"}
                         THEN interjectText ELSE <<>>)
    /\ pc' = "emit"

\* emitMessage returns to the run loop (lines 85 and 139-140)
EmitReturn ==
    /\ currentSpeaker' = EmitSpeaker
    /\ pc' = "top"
    /\ stream' = "none"

\* ----------------------------------------------------------------- start
\* lines 44-46
StartGuardAlways == TRUE

StartGuard == ~running

tooFewNever(cfg) == FALSE

\* line 50
tooFewParticipants(cfg) == cfg.n < 2

StartNoop ==
    /\ Suspended /\ ~StartGuard
    /\ ignoredCall' = "start"
    /\ UNCHANGED <<engineVars, storeVars, pc, localVars, streamVars, countVars, obsVars,
                   markVars>>

StartRejected ==
    /\ Suspended /\ StartGuard
    /\ tooFewParticipants(config)
    /\ lastToast' = "Configuration incomplete"
    /\ ignoredCall' = "none"
    /\ UNCHANGED <<engineVars, storeVars, pc, localVars, streamVars, countVars, lastPrompt,
                   emitOutcome, selectPath, pauseMark, stopMark, markVars>>

StartRun ==
    /\ Suspended /\ StartGuard
    /\ ~tooFewParticipants(config)
    /\ nextId <= MaxTurns
    /\ \E first \in Participants(config) :
        /\ currentSpeaker' = first
        /\ EmitBegin(clearMessages(messages), first, TRUE, <<>>, config)
    /\ abort' = FALSE /\ paused' = FALSE /\ running' = TRUE
    /\ userDisplayName' = ConfiguredUserName(config)
    /\ history' = <<>> /\ pendingUserMessages' = <<>> /\ skipDelayNextTurn' = FALSE
    /\ sessionId' = sessionId + 1
    /\ runConfig' = config
    /\ nextSpeaker' = NoSpeaker /\ thrown' = ""
    /\ activeLoops' = activeLoops + 1
    /\ pauseMark' = 0 /\ stopMark' = FALSE /\ lastToast' = "none"
    /\ ignoredCall' = "none"
    /\ UNCHANGED <<pauseRequested, config, interjections>>

\* ------------------------------------------------------- configuration
\* setParticipants, removeParticipant, updateConfig of the session store.  The
\* engine reads the store's config only in start(), past the running guard
\* (line 49), so a change made during a run acts as one made right after it.
SetConfig ==
    /\ pc = "idle" /\ ~running
    /\ config' \in Configs \ {config}
    /\ ignoredCall' = "none"
    /\ UNCHANGED <<engineVars, status, sessionId, messages, lastError, pc, localVars,
                   streamVars, countVars, obsVars, markVars>>

PauseAcceptedRunning == running

\* ----------------------------------------------------------------- pause
PauseAccepted == running /\ ~paused /\ ~pauseRequested

PauseRequestEager ==
    /\ paused' = TRUE /\ pauseRequested' = FALSE
    /\ status' = "paused" /\ lastError' = setStatusError("paused", lastError)

PauseRequestFlagOnly ==
    /\ paused' = TRUE /\ pauseRequested' = FALSE
    /\ UNCHANGED <<status, lastError>>

\* lines 178-180: only the request is recorded
PauseRequest ==
    /\ pauseRequested' = TRUE
    /\ UNCHANGED <<paused, status, lastError>>

Pause ==
    /\ Suspended
    /\ IF PauseAccepted
       THEN /\ PauseRequest
            /\ pauseMark' = (IF pc = "emit" THEN messageId ELSE 0)
       ELSE UNCHANGED <<pauseRequested, paused, status, lastError, pauseMark>>
    /\ ignoredCall' = (IF PauseAccepted THEN "none" ELSE "pause")
    /\ UNCHANGED <<abort, running, currentController, histVars, sessionId, messages, config,
                   pc, localVars, streamVars, countVars, lastPrompt, lastToast, emitOutcome,
                   selectPath, stopMark, markVars>>

\* ---------------------------------------------------------------- resume
ResumeAcceptedRunning == running

\* line 185
ResumeAccepted == running /\ paused

Resume ==
    /\ Suspended
    /\ IF ResumeAccepted
       THEN /\ paused' = FALSE /\ pauseRequested' = FALSE
            /\ status' = "streaming" /\ lastError' = setStatusError("streaming", lastError)
            /\ pauseMark' = 0
       ELSE UNCHANGED <<paused, pauseRequested, status, lastError, pauseMark>>
    /\ ignoredCall' = (IF ResumeAccepted THEN "none" ELSE "resume")
    /\ UNCHANGED <<abort, running, currentController, histVars, sessionId, messages, config,
                   pc, localVars, streamVars, countVars, lastPrompt, lastToast, emitOutcome,
                   selectPath, stopMark, markVars>>

\* ------------------------------------------------- queueUserInterjection
\* the calls explored: MaxInterjections interjections, and MaxRequeues more
\* that arrive while an earlier one is still pending
QueueBudget ==
    IF pendingUserMessages = <<>> THEN MaxInterjections ELSE MaxInterjections + MaxRequeues

QueueTexts == IF pendingUserMessages = <<>> THEN InterjectionTexts ELSE RequeueTexts

QueueAcceptedRunning(message) == running

QueueAcceptedWhenIdle(message) == Trim(message) # <<>>

\* lines 195-201
QueueAccepted(message) == running /\ Trim(message) # <<>>

enqueueAppend(pending, text) == Append(pending, text)

\* line 205: this.pendingUserMessages = [trimmed]
enqueue(pending, text) == <<text>>

QueueCall(message, authorName) ==
    /\ IF QueueAccepted(message)
       THEN /\ userDisplayName' = (IF authorName # NoName /\ Trim(authorName) # <<>>
                                   THEN Trim(authorName) ELSE userDisplayName)
            /\ pendingUserMessages' = enqueue(pendingUserMessages, Trim(message))
            /\ skipDelayNextTurn' = TRUE
            /\ interjections' = interjections + 1
            /\ interjectStage' = (IF paused THEN "queued"
                                  ELSE IF pc = "emit" THEN "midturn"
                                  ELSE "none")
            /\ interjectText' = (IF paused \/ pc = "emit" THEN Trim(message) ELSE <<>>)
            /\ ignoredCall' = "none"
       ELSE /\ UNCHANGED <<userDisplayName, pendingUserMessages, skipDelayNextTurn,
                           interjections, markVars>>
            /\ ignoredCall' = "queue"
    /\ UNCHANGED <<flagVars, history, storeVars, pc, localVars, streamVars, activeLoops,
                   nextId, obsVars>>

QueueUserInterjection ==
    /\ Suspended
    /\ interjections < QueueBudget
    /\ \E message \in QueueTexts, authorName \in AuthorNames : QueueCall(message, authorName)

\* ---------------------------------------------- clearPendingInterjection
\* the value of pauseMark after a pause request was withdrawn during the
\* inter-turn delay, until the loop comes round again
Withdrawn == -1

ClearPendingInterjectionResuming ==
    /\ Suspended
    /\ pendingUserMessages' = <<>>
    /\ skipDelayNextTurn' = FALSE
    /\ pauseRequested' = FALSE /\ paused' = FALSE
    /\ status' = (IF running /\ paused THEN "streaming" ELSE status)
    /\ lastError' = (IF running /\ paused THEN setStatusError("streaming", lastError)
                     ELSE lastError)
    /\ pauseMark' = 0
    /\ interjectStage' = (IF interjectStage \in {"queued", "midturn"} THEN "none"
                          ELSE interjectStage)
    /\ interjectText' = (IF interjectStage \in {"queued", "midturn"} THEN <<>>
                         ELSE interjectText)
    /\ ignoredCall' = "none"
    /\ UNCHANGED <<abort, running, currentController, history, userDisplayName,
                   sessionId, messages, config, pc, localVars, streamVars, countVars,
                   lastPrompt, lastToast, emitOutcome, selectPath, stopMark>>

ClearPendingInterjectionKeepingPause ==
    /\ Suspended
    /\ pendingUserMessages' = <<>>
    /\ skipDelayNextTurn' = FALSE
    /\ pauseMark' = (IF pauseRequested /\ ~paused
                     THEN (IF pc = "delay" THEN Withdrawn ELSE 0)
                     ELSE pauseMark)
    /\ interjectStage' = (IF interjectStage \in {"queued", "midturn"} THEN "none"
                          ELSE interjectStage)
    /\ interjectText' = (IF interjectStage \in {"queued", "midturn"} THEN <<>>
                         ELSE interjectText)
    /\ ignoredCall' = "none"
    /\ UNCHANGED <<abort, paused, pauseRequested, running, currentController, history,
                   userDisplayName, storeVars, pc, localVars, streamVars, countVars,
                   lastPrompt, lastToast, emitOutcome, selectPath, stopMark>>

\* lines 210-216
ClearPendingInterjection ==
    /\ Suspended
    /\ pendingUserMessages' = <<>>
    /\ skipDelayNextTurn' = FALSE
    /\ pauseRequested' = (IF pauseRequested /\ ~paused THEN FALSE ELSE pauseRequested)
    /\ pauseMark' = (IF pauseRequested /\ ~paused
                     THEN (IF pc = "delay" THEN Withdrawn ELSE 0)
                     ELSE pauseMark)
    /\ interjectStage' = (IF interjectStage \in {"queued", "midturn"} THEN "none"
                          ELSE interjectStage)
    /\ interjectText' = (IF interjectStage \in {"queued", "midturn"} THEN <<>>
                         ELSE interjectText)
    /\ ignoredCall' = "none"
    /\ UNCHANGED <<abort, paused, running, currentController, history, userDisplayName,
                   storeVars, pc, localVars, streamVars, countVars, lastPrompt, lastToast,
                   emitOutcome, selectPath, stopMark>>

\* ------------------------------------------------------------------ stop
Stop ==
    /\ Suspended
    /\ IF running
       THEN /\ abort' = TRUE /\ paused' = FALSE /\ pauseRequested' = FALSE
            /\ pendingUserMessages' = <<>> /\ skipDelayNextTurn' = FALSE
            /\ currentController' = (IF currentController = "null" THEN "null" ELSE "aborted")
            /\ status' = "completed" /\ lastError' = setStatusError("completed", lastError)
            /\ stopMark' = (IF pc = "emit" THEN TRUE ELSE stopMark)
            /\ pauseMark' = 0
            /\ interjectStage' = (IF interjectStage \in {"queued", "midturn"} THEN "none"
                                  ELSE interjectStage)
            /\ interjectText' = (IF interjectStage \in {"queued", "midturn"} THEN <<>>
                                 ELSE interjectText)
       ELSE UNCHANGED <<abort, paused, pauseRequested, pendingUserMessages, skipDelayNextTurn,
                        currentController, status, lastError, stopMark, pauseMark, markVars>>
    /\ ignoredCall' = "none"
    /\ UNCHANGED <<running, history, userDisplayName, sessionId, messages, config, pc,
                   localVars, streamVars, countVars, lastPrompt, lastToast, emitOutcome,
                   selectPath>>

\* ------------------------- streamChatCompletion, as emitMessage consumes it
\* the response arrives with a body: the SSE reader is opened
StreamOpenBody ==
    /\ pc = "emit" /\ stream = "fetch" /\ currentController = "live"
    /\ stream' = "read"
    /\ ignoredCall' = "none"
    /\ UNCHANGED <<engineVars, storeVars, pc, localVars, collectedText, chunks, countVars,
                   obsVars, markVars>>

\* the response has no body: createChatCompletion is awaited instead, and it
\* is called without the abort signal
StreamFallbackRequest ==
    /\ pc = "emit" /\ stream = "fetch" /\ currentController = "live"
    /\ stream' = "fallback"
    /\ ignoredCall' = "none"
    /\ UNCHANGED <<engineVars, storeVars, pc, localVars, collectedText, chunks, countVars,
                   obsVars, markVars>>

\* a 'chunk' event (lines 290-297)
StreamChunk ==
    /\ pc = "emit" /\ stream = "read" /\ currentController = "live"
    /\ chunks < MaxChunks
    /\ \E delta \in Deltas :
        /\ messages' = updateMessage(messages, messageId, "streaming",
                          stripCitationArtifacts(contentOf(messages, messageId) \o delta))
        /\ collectedText' = collectedText \o delta
    /\ chunks' = chunks + 1
    /\ ignoredCall' = "none"
    /\ UNCHANGED <<engineVars, status, sessionId, lastError, config, pc, localVars, stream,
                   countVars, obsVars, markVars>>

\* the event loop has ended without a throw: the terminal update, the history
\* entry and the return to the run loop (lines 308-316)
EmitFinish(msgs) ==
    /\ messages' = updateMessage(msgs, messageId, "completed", contentOf(msgs, messageId))
    /\ history' = recordHistoryEntry(history, DisplayNames[EmitSpeaker], contentOf(msgs, messageId))
    /\ emitOutcome' = "completed"
    /\ EmitReturn
    /\ ignoredCall' = "none"
    /\ UNCHANGED <<flagVars, pendingUserMessages, skipDelayNextTurn, userDisplayName, status,
                   sessionId, lastError, config, runConfig, nextSpeaker, isFirst, messageId,
                   thrown, collectedText, chunks, countVars, lastPrompt, lastToast,
                   selectPath, pauseMark, stopMark, markVars>>

\* a 'message' event carrying `content` (lines 298-305), then the end of the loop
MessageEvent(content) ==
    EmitFinish(updateMessage(messages, messageId, "completed", stripCitationArtifacts(content)))

\* response.completed: the server's final text, or the collected text when that is blank
StreamCompleted ==
    /\ pc = "emit" /\ stream = "read" /\ currentController = "live"
    /\ \E final \in FinalTexts :
        MessageEvent(IF Trim(final) = <<>> /\ collectedText # <<>> THEN collectedText ELSE final)

\* the reader is done (or [DONE] arrives) before any response.completed
StreamEnded ==
    /\ pc = "emit" /\ stream = "read" /\ currentController = "live"
    /\ IF collectedText # <<>> THEN MessageEvent(Trim(collectedText)) ELSE EmitFinish(messages)

\* an 'error' event: the generator returns; emitMessage handles no such event
StreamErrorEvent ==
    /\ pc = "emit" /\ stream = "read" /\ currentController = "live"
    /\ EmitFinish(messages)

\* the non-streaming fallback returns, whether or not stop() aborted the signal
StreamFallbackReturn ==
    /\ pc = "emit" /\ stream = "fallback"
    /\ \E final \in FinalTexts : MessageEvent(final)

\* the abort signal the request in flight was issued with: the turn's
\* controller for the streaming fetch and its reader (emitMessage line 288);
\* none for createChatCompletion, in chooseNextSpeaker and in the body-less
\* fallback of streamChatCompletion
requestSignal ==
    IF pc = "selecting" \/ (pc = "emit" /\ stream = "fallback") THEN "unsignalled"
    ELSE IF pc = "emit" /\ stream \in {"fetch", "read"} THEN currentController
    ELSE "none"

swallowedNever(controller) == FALSE

\* the test of emitMessage's catch (line 318): controller.signal.aborted
swallowed(controller) == controller = "aborted"

\* fetch, read or the fallback request rejects while the signal is not aborted:
\* emitMessage rethrows (line 321)
StreamThrow ==
    /\ pc = "emit" /\ stream \in {"fetch", "read", "fallback"} /\ ~swallowed(currentController)
    /\ \E error \in ErrorMessages : thrown' = error
    /\ pc' = "catch" /\ stream' = "none"
    /\ emitOutcome' = "failed"
    /\ ignoredCall' = "none"
    /\ UNCHANGED <<engineVars, storeVars, runConfig, currentSpeaker, nextSpeaker, isFirst,
                   messageId, collectedText, chunks, countVars, lastPrompt, lastToast,
                   selectPath, pauseMark, stopMark, markVars>>

\* the call rejects after stop() aborted the signal: emitMessage returns (lines 318-320)
StreamCancelled ==
    /\ pc = "emit" /\ stream \in {"fetch", "read", "fallback"} /\ swallowed(currentController)
    /\ emitOutcome' = "cancelled"
    /\ EmitReturn
    /\ ignoredCall' = "none"
    /\ UNCHANGED <<engineVars, storeVars, runConfig, nextSpeaker, isFirst, messageId, thrown,
                   collectedText, chunks, countVars, lastPrompt, lastToast, selectPath,
                   pauseMark, stopMark, markVars>>

\* -------------------------------------------------------------- run loop
\* while (!this.abort), then the inter-turn delay unless it is skipped (lines 85-90)
LoopTop ==
    /\ pc = "top"
    /\ IF abort THEN pc' = "exit" /\ UNCHANGED skipDelayNextTurn
       ELSE IF skipDelayNextTurn THEN pc' = "chk1" /\ skipDelayNextTurn' = FALSE
       ELSE pc' = "delay" /\ UNCHANGED skipDelayNextTurn
    /\ pauseMark' = (IF pauseMark = Withdrawn THEN 0 ELSE pauseMark)
    /\ ignoredCall' = "none"
    /\ UNCHANGED <<flagVars, history, pendingUserMessages, userDisplayName, storeVars,
                   localVars, streamVars, countVars, lastPrompt, lastToast, emitOutcome,
                   selectPath, stopMark, markVars>>

\* waitFor(1500) resolves
DelayElapsed ==
    /\ pc = "delay"
    /\ pc' = "chk1"
    /\ ignoredCall' = "none"
    /\ UNCHANGED <<engineVars, storeVars, localVars, streamVars, countVars, obsVars, markVars>>

Checkpoint(k) == <<"chk1", "chk2", "chk3">>[k]
Poll(k) == <<"poll1", "poll2", "poll3">>[k]
Continue(k) == <<"cont1", "cont2", "cont3">>[k]

WaitIfPausedIgnoringRequest ==
    /\ \E k \in 1..3 :
        /\ pc = Checkpoint(k)
        /\ pc' = (IF paused /\ ~abort THEN Poll(k) ELSE Continue(k))
    /\ ignoredCall' = "none"
    /\ UNCHANGED <<engineVars, storeVars, localVars, streamVars, countVars, obsVars, markVars>>

\* waitIfPaused (lines 366-378): a requested pause is applied, then the poll
\* loop is entered or skipped
WaitIfPaused ==
    /\ \E k \in 1..3 :
        /\ pc = Checkpoint(k)
        /\ LET apply == pauseRequested /\ ~paused
               nowPaused == paused \/ apply
           IN /\ paused' = nowPaused
              /\ pauseRequested' = (IF apply THEN FALSE ELSE pauseRequested)
              /\ status' = (IF apply THEN "paused" ELSE status)
              /\ lastError' = (IF apply THEN setStatusError("paused", lastError) ELSE lastError)
              /\ pc' = (IF nowPaused /\ ~abort THEN Poll(k) ELSE Continue(k))
    /\ ignoredCall' = "none"
    /\ UNCHANGED <<abort, running, currentController, histVars, sessionId, messages, config,
                   localVars, streamVars, countVars, obsVars, markVars>>

PollExitUnlessStopped ==
    /\ \E k \in 1..3 :
        /\ pc = Poll(k)
        /\ ~paused /\ ~abort
        /\ pc' = Continue(k)
    /\ ignoredCall' = "none"
    /\ UNCHANGED <<engineVars, storeVars, localVars, streamVars, countVars, obsVars, markVars>>

\* a waitFor(150) poll finds the engine resumed or stopped
PollExit ==
    /\ \E k \in 1..3 :
        /\ pc = Poll(k)
        /\ ~(paused /\ ~abort)
        /\ pc' = Continue(k)
    /\ ignoredCall' = "none"
    /\ UNCHANGED <<engineVars, storeVars, localVars, streamVars, countVars, obsVars, markVars>>

\* consumePendingUserMessages (lines 380-392), when something is pending
ConsumePending ==
    /\ history' = consumedHistory(history, userDisplayName, pendingUserMessages)
    /\ pendingUserMessages' = <<>>
    /\ skipDelayNextTurn' = TRUE
    /\ interjectStage' = (IF interjectStage = "queued" THEN "consumed"
                          ELSE IF interjectStage = "midturn" THEN "consumedMid"
                          ELSE interjectStage)
    /\ UNCHANGED interjectText

\* lines 93-99: abort check, drain the interjection, nextSpeaker = null
AfterFirstCheckpoint ==
    /\ pc = "cont1"
    /\ IF abort
       THEN /\ pc' = "exit"
            /\ UNCHANGED <<history, pendingUserMessages, skipDelayNextTurn, nextSpeaker, markVars>>
       ELSE /\ IF pendingUserMessages # <<>> THEN ConsumePending
               ELSE UNCHANGED <<history, pendingUserMessages, skipDelayNextTurn, markVars>>
            /\ nextSpeaker' = NoSpeaker
            /\ pc' = "choose"
    /\ ignoredCall' = "none"
    /\ UNCHANGED <<flagVars, userDisplayName, storeVars, runConfig, currentSpeaker, isFirst,
                   messageId, thrown, streamVars, countVars, obsVars>>

\* chooseNextSpeaker with two participants: the other one, no request (lines 337-339)
ChooseAlternate ==
    /\ pc = "choose"
    /\ runConfig.n = 2
    /\ nextSpeaker' = otherParticipant(runConfig, currentSpeaker)
    /\ selectPath' = "alternate"
    /\ pc' = "chk2"
    /\ ignoredCall' = "none"
    /\ UNCHANGED <<engineVars, storeVars, runConfig, currentSpeaker, isFirst, messageId,
                   thrown, streamVars, countVars, lastPrompt, lastToast, emitOutcome,
                   pauseMark, stopMark, markVars>>

\* chooseNextSpeaker otherwise: the decision request is issued (lines 342-347)
ChooseRequest ==
    /\ pc = "choose"
    /\ runConfig.n # 2
    /\ pc' = "selecting"
    /\ selectPath' = "request"
    /\ ignoredCall' = "none"
    /\ UNCHANGED <<engineVars, storeVars, runConfig, currentSpeaker, nextSpeaker, isFirst,
                   messageId, thrown, streamVars, countVars, lastPrompt, lastToast,
                   emitOutcome, pauseMark, stopMark, markVars>>

\* the decision request returns `raw`: a matching participant, else the random
\* fallback (lines 349-363)
ChooseResponseWith(raw) ==
    /\ pc = "selecting"
    /\ LET match == matchParticipant(runConfig, raw)
       IN IF match # NoSpeaker
          THEN nextSpeaker' = match /\ selectPath' = "match"
          ELSE /\ nextSpeaker' \in randomOptions(runConfig, currentSpeaker)
               /\ selectPath' = "fallback"
    /\ pc' = "chk2"
    /\ ignoredCall' = "none"
    /\ UNCHANGED <<engineVars, storeVars, runConfig, currentSpeaker, isFirst, messageId,
                   thrown, streamVars, countVars, lastPrompt, lastToast, emitOutcome,
                   pauseMark, stopMark, markVars>>

ChooseResponse == \E raw \in RawResponses : ChooseResponseWith(raw)

\* the decision request rejects: caught locally, random fallback (lines 359-363)
ChooseFailure ==
    /\ pc = "selecting"
    /\ nextSpeaker' \in randomOptions(runConfig, currentSpeaker)
    /\ selectPath' = "fallback"
    /\ pc' = "chk2"
    /\ ignoredCall' = "none"
    /\ UNCHANGED <<engineVars, storeVars, runConfig, currentSpeaker, isFirst, messageId,
                   thrown, streamVars, countVars, lastPrompt, lastToast, emitOutcome,
                   pauseMark, stopMark, markVars>>

AfterSelectionKeepingChoice ==
    /\ pc = "cont2"
    /\ IF abort
       THEN /\ pc' = "exit"
            /\ UNCHANGED <<history, pendingUserMessages, skipDelayNextTurn, markVars>>
       ELSE IF pendingUserMessages # <<>>
       THEN /\ ConsumePending
            /\ pc' = "chk3"
       ELSE /\ pc' = "chk3"
            /\ UNCHANGED <<history, pendingUserMessages, skipDelayNextTurn, markVars>>
    /\ ignoredCall' = "none"
    /\ UNCHANGED <<flagVars, userDisplayName, storeVars, localVars, streamVars, countVars,
                   obsVars>>

\* lines 110-121: abort check; an interjection that arrived discards the choice
AfterSelection ==
    /\ pc = "cont2"
    /\ IF abort
       THEN /\ pc' = "exit"
            /\ UNCHANGED <<history, pendingUserMessages, skipDelayNextTurn, nextSpeaker,
                           selectPath, markVars>>
       ELSE IF pendingUserMessages # <<>>
       THEN /\ ConsumePending
            /\ nextSpeaker' = NoSpeaker
            /\ selectPath' = "discarded"
            /\ pc' = "choose"
       ELSE /\ pc' = "chk3"
            /\ UNCHANGED <<history, pendingUserMessages, skipDelayNextTurn, nextSpeaker,
                           selectPath, markVars>>
    /\ ignoredCall' = "none"
    /\ UNCHANGED <<flagVars, userDisplayName, storeVars, runConfig, currentSpeaker, isFirst,
                   messageId, thrown, streamVars, countVars, lastPrompt, lastToast,
                   emitOutcome, pauseMark, stopMark>>

\* lines 124-130: abort check; a pending interjection is drained and the loop continues
AfterLastCheckpoint ==
    /\ pc = "cont3"
    /\ IF abort
       THEN /\ pc' = "exit"
            /\ UNCHANGED <<history, pendingUserMessages, skipDelayNextTurn, selectPath,
                           markVars>>
       ELSE /\ pendingUserMessages # <<>>
            /\ ConsumePending
            /\ selectPath' = "discarded"
            /\ pc' = "top"
    /\ ignoredCall' = "none"
    /\ UNCHANGED <<flagVars, userDisplayName, storeVars, localVars, streamVars, countVars,
                   lastPrompt, lastToast, emitOutcome, pauseMark, stopMark>>

EmitNextUnchecked ==
    /\ pc = "cont3"
    /\ pendingUserMessages = <<>>
    /\ nextId <= MaxTurns
    /\ EmitBegin(messages, nextSpeaker, FALSE, history, runConfig)
    /\ ignoredCall' = "none"
    /\ UNCHANGED <<abort, paused, pauseRequested, running, histVars, sessionId, config,
                   runConfig, currentSpeaker, nextSpeaker, thrown, activeLoops,
                   interjections, lastToast, pauseMark, stopMark>>

\* lines 132-137: the chosen speaker's turn begins
EmitNext ==
    /\ pc = "cont3"
    /\ ~abort /\ pendingUserMessages = <<>>
    /\ nextId <= MaxTurns
    /\ EmitBegin(messages, nextSpeaker, FALSE, history, runConfig)
    /\ ignoredCall' = "none"
    /\ UNCHANGED <<abort, paused, pauseRequested, running, histVars, sessionId, config,
                   runConfig, currentSpeaker, nextSpeaker, thrown, activeLoops,
                   interjections, lastToast, pauseMark, stopMark>>

\* lines 142-144: the loop was left without a throw
LoopExit ==
    /\ pc = "exit"
    /\ status' = (IF ~abort THEN "completed" ELSE status)
    /\ lastError' = (IF ~abort THEN setStatusError("completed", lastError) ELSE lastError)
    /\ pc' = "finally"
    /\ ignoredCall' = "none"
    /\ UNCHANGED <<engineVars, sessionId, messages, config, localVars, streamVars, countVars,
                   obsVars, markVars>>

\* lines 145-153: the error sink and the toast
LoopCatch ==
    /\ pc = "catch"
    /\ lastError' = thrown
    /\ status' = setErrorStatus(thrown, status)
    /\ lastToast' = "Conversation failed"
    /\ pc' = "finally"
    /\ ignoredCall' = "none"
    /\ UNCHANGED <<engineVars, sessionId, messages, config, localVars, streamVars, countVars,
                   lastPrompt, emitOutcome, selectPath, pauseMark, stopMark, markVars>>

\* the status the finally block leaves (lines 163-165)
finalStatus(current) == IF current # "completed" THEN "idle" ELSE current

\* lines 154-166; the locals of start() and runLoop go out of scope
LoopFinally ==
    /\ pc = "finally"
    /\ running' = FALSE /\ abort' = FALSE /\ paused' = FALSE /\ pauseRequested' = FALSE
    /\ pendingUserMessages' = <<>> /\ skipDelayNextTurn' = FALSE
    /\ currentController' = "null"
    /\ status' = finalStatus(status)
    /\ lastError' = (IF finalStatus(status) # status THEN setStatusError("idle", lastError)
                     ELSE lastError)
    /\ activeLoops' = activeLoops - 1
    /\ pc' = "idle"
    /\ currentSpeaker' = NoSpeaker /\ nextSpeaker' = NoSpeaker
    /\ isFirst' = FALSE /\ messageId' = 0 /\ thrown' = ""
    /\ collectedText' = <<>> /\ chunks' = 0
    /\ pauseMark' = 0 /\ selectPath' = "none"
    /\ interjectStage' = "none" /\ interjectText' = <<>>
    /\ ignoredCall' = "none"
    /\ UNCHANGED <<history, userDisplayName, sessionId, messages, config, runConfig, stream,
                   nextId, interjections, lastPrompt, lastToast, emitOutcome, stopMark>>

\* ------------------------------------------------------------------ Next
Next ==
    \/ StartNoop \/ StartRejected \/ StartRun \/ SetConfig
    \/ Pause \/ Resume \/ QueueUserInterjection \/ ClearPendingInterjection \/ Stop
    \/ StreamOpenBody \/ StreamFallbackRequest \/ StreamChunk \/ StreamCompleted
    \/ StreamEnded \/ StreamErrorEvent \/ StreamFallbackReturn \/ StreamThrow
    \/ StreamCancelled
    \/ LoopTop \/ DelayElapsed \/ WaitIfPaused \/ PollExit \/ AfterFirstCheckpoint
    \/ ChooseAlternate \/ ChooseRequest \/ ChooseResponse \/ ChooseFailure
    \/ AfterSelection \/ AfterLastCheckpoint \/ EmitNext
    \/ LoopExit \/ LoopCatch \/ LoopFinally

Spec == Init /\ [][Next]_vars

\* ------------------------------------------------------------- scheduling
\* The steps the JavaScript runtime takes by itself: continuations of the run
\* loop, timers that fire (waitFor, lines 529-531) and backend calls that
\* return or reject.  The calls of the public methods are the user's and are
\* under no obligation to happen.
EngineStep ==
    \/ StreamOpenBody \/ StreamFallbackRequest \/ StreamChunk \/ StreamCompleted
    \/ StreamEnded \/ StreamErrorEvent \/ StreamFallbackReturn \/ StreamThrow
    \/ StreamCancelled
    \/ LoopTop \/ DelayElapsed \/ WaitIfPaused \/ PollExit \/ AfterFirstCheckpoint
    \/ ChooseAlternate \/ ChooseRequest \/ ChooseResponse \/ ChooseFailure
    \/ AfterSelection \/ AfterLastCheckpoint \/ EmitNext
    \/ LoopExit \/ LoopCatch \/ LoopFinally

\* A pending timer fires, a call in flight returns or rejects, a continuation
\* that is ready runs.  At every position of a streaming call one of the
\* steps listed here is enabled, and the other steps of the stream
\* (StreamChunk, StreamCompleted, StreamEnded, StreamFallbackReturn) are
\* enabled only where one of these is and either end the call too or are
\* bounded in number: weak fairness of this action says the same as weak
\* fairness of EngineStep, namely that no such position is occupied for ever.
EngineProgress ==
    \/ StreamOpenBody \/ StreamFallbackRequest \/ StreamErrorEvent \/ StreamThrow
    \/ StreamCancelled
    \/ LoopTop \/ DelayElapsed \/ WaitIfPaused \/ PollExit \/ AfterFirstCheckpoint
    \/ ChooseAlternate \/ ChooseRequest \/ ChooseResponse \/ ChooseFailure
    \/ AfterSelection \/ AfterLastCheckpoint \/ EmitNext
    \/ LoopExit \/ LoopCatch \/ LoopFinally

\* queueUserInterjection in the two-participant session
QueueInPairSession == QueueUserInterjection /\ config.n = 2

\* the calls of the public methods on a session configured once
UserCall ==
    \/ StartNoop \/ StartRun
    \/ Pause \/ Resume \/ QueueInPairSession \/ ClearPendingInterjection \/ Stop

\* a session of two or of three participants
FairInit == Init /\ config.n >= 2 /\ config.userName = NoName

FairNext == UserCall \/ EngineStep

FairSpec == FairInit /\ [][FairNext]_vars /\ WF_vars(EngineProgress)

\* --------------------------------------------------- HistoryLog on its own
\* The two places that append to the history, applied any number of times:
\* the entry of a finished assistant turn (emitMessage lines 313-316) and the
\* entry of a consumed interjection (consumePendingUserMessages lines 385-387).
\* nextId counts the turns, interjections the interjections.
HistoryContents == {<<"a", " ">>}

HistoryInit == Init /\ config = [n |-> 2, userName |-> NoName]

historyAppends == (nextId - 1) + interjections

RecordAssistantEntry ==
    /\ historyAppends < MaxAppends
    /\ \E content \in HistoryContents :
        history' = recordHistoryEntry(history, DisplayNames[1], content)
    /\ nextId' = nextId + 1
    /\ UNCHANGED <<flagVars, pendingUserMessages, skipDelayNextTurn, userDisplayName,
                   storeVars, pc, localVars, streamVars, activeLoops, interjections,
                   obsVars, markVars, ignoredCall>>

RecordUserEntry ==
    /\ historyAppends < MaxAppends
    /\ \E message \in RequeueTexts :
        history' = consumedHistory(history, userDisplayName, <<message>>)
    /\ interjections' = interjections + 1
    /\ UNCHANGED <<flagVars, pendingUserMessages, skipDelayNextTurn, userDisplayName,
                   storeVars, pc, localVars, streamVars, activeLoops, nextId,
                   obsVars, markVars, ignoredCall>>

HistoryNext == RecordAssistantEntry \/ RecordUserEntry

HistorySpec == HistoryInit /\ [][HistoryNext]_vars

\* ------------------------------------------- the sanitizer under a stream
\* The opening turn of a two-participant run, with the response body open
\* (the state after StartRun and StreamOpenBody), fed one character at a time
\* from an alphabet that holds the characters of a citation and the newline.
SanitizerChars == {"[", "1", "]", "\n", "a"}

SanitizerConfig == [n |-> 2, userName |-> NoName]

SanitizerInit ==
    /\ abort = FALSE /\ paused = FALSE /\ pauseRequested = FALSE /\ running = TRUE
    /\ currentController = "live"
    /\ history = <<>> /\ pendingUserMessages = <<>> /\ skipDelayNextTurn = FALSE
    /\ userDisplayName = DefaultUser
    /\ status = "connecting" /\ sessionId = 1 /\ messages = <<newMessage(1, 1)>>
    /\ lastError = Null /\ config = SanitizerConfig
    /\ pc = "emit" /\ runConfig = SanitizerConfig
    /\ currentSpeaker = 1 /\ nextSpeaker = NoSpeaker
    /\ isFirst = TRUE /\ messageId = 1 /\ thrown = ""
    /\ stream = "read" /\ collectedText = <<>> /\ chunks = 0
    /\ activeLoops = 1 /\ nextId = 2 /\ interjections = 0
    /\ lastPrompt = buildPrompt(SanitizerConfig, 1, <<>>, TRUE) /\ lastToast = "none"
    /\ emitOutcome = "inflight" /\ selectPath = "none" /\ pauseMark = 0 /\ stopMark = FALSE
    /\ ignoredCall = "none" /\ interjectStage = "none" /\ interjectText = <<>>

\* a 'chunk' event of one character (part_007 lines 319-320, emitMessage lines 290-297)
SanitizerChunk ==
    /\ pc = "emit" /\ stream = "read" /\ currentController = "live"
    /\ Len(collectedText) < MaxTextLen
    /\ \E c \in SanitizerChars :
        /\ messages' = updateMessage(messages, messageId, "streaming",
                          stripCitationArtifacts(contentOf(messages, messageId) \o <<c>>))
        /\ collectedText' = collectedText \o <<c>>
    /\ chunks' = chunks + 1
    /\ ignoredCall' = "none"
    /\ UNCHANGED <<engineVars, status, sessionId, lastError, config, pc, localVars, stream,
                   countVars, obsVars, markVars>>

SanitizerNext == SanitizerChunk \/ StreamEnded

SanitizerSpec == SanitizerInit /\ [][SanitizerNext]_vars

\* ------------------------------------------ the selector under a response
\* A three-participant run whose opening turn has completed and whose first
\* decision request is in flight (the state after StartRun, the opening turn,
\* LoopTop, DelayElapsed, WaitIfPaused, AfterFirstCheckpoint, ChooseRequest),
\* for each current speaker; collectedText holds the content of the response
\* in flight (response.choices[0]?.message.content ?? '', line 349), any text
\* over an alphabet of name letters in both cases, the space and the pipe.
RawChars == {"A", "a", "B", "c", " ", "|"}

RawContents == UNION {[1..k -> RawChars] : k \in 0..MaxRawLen}

SelectorConfig == [n |-> 3, userName |-> NoName]

SelectorInit ==
    /\ abort = FALSE /\ paused = FALSE /\ pauseRequested = FALSE /\ running = TRUE
    /\ currentController = "live"
    /\ history = <<>> /\ pendingUserMessages = <<>> /\ skipDelayNextTurn = FALSE
    /\ userDisplayName = DefaultUser
    /\ currentSpeaker \in Participants(SelectorConfig)
    /\ status = "connecting" /\ sessionId = 1
    /\ messages = <<[newMessage(1, currentSpeaker) EXCEPT !.status = "completed"]>>
    /\ lastError = Null /\ config = SelectorConfig
    /\ pc = "selecting" /\ runConfig = SelectorConfig
    /\ nextSpeaker = NoSpeaker
    /\ isFirst = TRUE /\ messageId = 1 /\ thrown = ""
    /\ stream = "none" /\ collectedText \in RawContents /\ chunks = 0
    /\ activeLoops = 1 /\ nextId = 2 /\ interjections = 0
    /\ lastPrompt = buildPrompt(SelectorConfig, currentSpeaker, <<>>, TRUE)
    /\ lastToast = "none"
    /\ emitOutcome = "completed" /\ selectPath = "request" /\ pauseMark = 0
    /\ stopMark = FALSE
    /\ ignoredCall = "none" /\ interjectStage = "none" /\ interjectText = <<>>

\* the decision request returns the content in flight (lines 349-363)
SelectorResponse == ChooseResponseWith(collectedText)

SelectorNext == SelectorResponse

SelectorSpec == SelectorInit /\ [][SelectorNext]_vars

TypeOK ==
    /\ status \in {"idle", "connecting", "streaming", "paused", "completed", "error"}
    /\ pc \in {"idle", "emit", "top", "delay", "chk1", "poll1", "cont1", "choose",
               "selecting", "chk2", "poll2", "cont2", "chk3", "poll3", "cont3",
               "exit", "catch", "finally"}
    /\ stream \in {"none", "fetch", "read", "fallback"}
    /\ currentController \in {"null", "live", "aborted"}
    /\ activeLoops \in 0..1

\* ---------------------------------------------------------------- claims
Checkpoints == {"chk1", "chk2", "chk3"}

messageWithId(id) == CHOOSE m \in {messages[i] : i \in 1..Len(messages)} : m.id = id

hasMessage(id) == \E i \in 1..Len(messages) : messages[i].id = id

\* C1: when pause() is called while a turn is streaming, the status is paused
\* only once no streaming call is in flight and that turn's message (every
\* message of the transcript, in fact) is completed; and the status becomes
\* paused only in a step taken at a checkpoint between turns.
PauseNeverTruncates ==
    /\ [](status = "paused" =>
            /\ pc # "emit" /\ stream = "none"
            /\ \A i \in 1..Len(messages) : messages[i].status = "completed"
            /\ pauseMark # 0 => hasMessage(pauseMark))
    /\ [][(status' = "paused" /\ status # "paused") => pc \in Checkpoints]_vars

PausedAfterStreamingTurn ==
    /\ status = "paused" /\ pauseMark # 0 /\ chunks = 1
    /\ hasMessage(pauseMark)
    /\ messageWithId(pauseMark).status = "completed"
    /\ messageWithId(pauseMark).content # <<>>

\* C2: after stop() is called while a streaming call is in flight, the
\* transcript is never appended to or updated again in that run, and the
\* status is completed from then on, also after the run loop has exited.
StopFreezesTranscript ==
    /\ [](stopMark => status = "completed")
    /\ [][(stopMark /\ stopMark') => messages' = messages]_vars

\* C3: the streaming request that follows an interjection queued while paused
\* has a prompt whose recent-messages section contains
\* "<configured user name>: <text>" and whose address instruction names the
\* configured user name.
InterjectionPromptUsesConfiguredName ==
    interjectStage = "prompted" =>
        /\ Contains(lastPrompt.recent,
                    ConfiguredUserName(runConfig) \o <<":", " ">> \o interjectText)
        /\ lastPrompt.address = ConfiguredUserName(runConfig)

\* C4: there is never more than one run loop, a run loop exists exactly while
\* the engine is running, no step taken during a run clears the transcript or
\* changes the session id, and a start() that finds a run active changes
\* neither the transcript, the status, the session id nor the loop.
SingleRunLoop ==
    /\ [](activeLoops <= 1 /\ (running <=> activeLoops = 1))
    /\ [][running => (sessionId' = sessionId /\ Len(messages') >= Len(messages))]_vars
    /\ [][ignoredCall' = "start" =>
            (running /\ UNCHANGED <<messages, status, sessionId, activeLoops, pc>>)]_vars

StartIgnoredWhileRunning ==
    ignoredCall = "start" /\ running /\ activeLoops = 1 /\ Len(messages) >= 1

\* C5: with exactly two participants no decision request is ever in flight and
\* the speaker is never chosen by the request path, and two consecutive
\* assistant messages of the transcript never have the same speaker.
TwoParticipantsAlternate ==
    runConfig.n = 2 =>
        /\ pc # "selecting"
        /\ selectPath \notin {"request", "match", "fallback"}
        /\ \A i \in 1..(Len(messages) - 1) : messages[i].speakerId # messages[i + 1].speakerId

TwoTurnsOfTwoParticipants ==
    /\ runConfig.n = 2 /\ Len(messages) = 2
    /\ messages[2].status = "completed" /\ interjections = 1

\* C6: with three or more participants, the speaker that the fallback path of
\* the selection has returned is a participant other than the current speaker.
FallbackExcludesCurrent ==
    (/\ runConfig.n >= 3 /\ selectPath = "fallback"
     /\ pc \in {"chk2", "poll2", "cont2", "chk3", "poll3", "cont3"})
        => nextSpeaker \in Participants(runConfig) \ {currentSpeaker}

FallbackChoseSpeaker ==
    /\ runConfig.n = 3 /\ selectPath = "fallback" /\ pc = "chk3"
    /\ nextSpeaker # NoSpeaker

\* C7: a message enters the transcript pending and empty, as its last element;
\* a pending message becomes streaming or completed, a streaming one stays
\* streaming or becomes completed, only the newest message changes, and a
\* completed message never changes again (within a run; start() clears the
\* transcript).
isPrefixStep == Len(messages') >= Len(messages) /\ ~(running' /\ ~running)

MessageLifecycle ==
    [][isPrefixStep =>
        /\ Len(messages') <= Len(messages) + 1
        /\ \A i \in 1..Len(messages') :
            IF i > Len(messages)
            THEN messages'[i].status = "pending" /\ messages'[i].content = <<>>
            ELSE /\ messages'[i].id = messages[i].id
                 /\ messages'[i].speakerId = messages[i].speakerId
                 /\ messages[i].status = "completed" => messages'[i] = messages[i]
                 /\ messages[i].status = "streaming" =>
                        messages'[i].status \in {"streaming", "completed"}
                 /\ messages'[i] # messages[i] => i = Len(messages)]_vars

StreamedMessageCompleted ==
    /\ Len(messages) >= 1 /\ chunks = 1 /\ emitOutcome = "completed"
    /\ messages[Len(messages)].status = "completed"
    /\ messages[Len(messages)].content # <<>>

\* C8: the status changes only along idle -> connecting -> (streaming <->
\* paused) -> completed, or to error from connecting, streaming or paused; and
\* it leaves completed or error only in the step of a new start().
StatusEdges ==
    {<<"idle", "connecting">>, <<"connecting", "streaming">>, <<"connecting", "completed">>,
     <<"streaming", "paused">>, <<"paused", "streaming">>, <<"streaming", "completed">>,
     <<"paused", "completed">>, <<"connecting", "error">>, <<"streaming", "error">>,
     <<"paused", "error">>, <<"completed", "connecting">>, <<"error", "connecting">>}

StatusFollowsStateMachine ==
    [][status' # status =>
        /\ <<status, status'>> \in StatusEdges
        /\ status \in {"completed", "error"} => (~running /\ running')]_vars

\* C9: when a turn's emission has thrown, the status is error and the recorded
\* error is the thrown message by the time the run winds up, and until the run
\* has ended no message is appended or updated and no request is issued.
EmissionFailureEndsRun ==
    /\ []((pc = "finally" /\ emitOutcome = "failed") =>
            (status = "error" /\ lastError = thrown /\ thrown \in ErrorMessages))
    /\ [][(emitOutcome = "failed" /\ running) =>
            (messages' = messages /\ pc' \notin {"emit", "selecting"}
             /\ stream' = "none" /\ nextId' = nextId)]_vars

EmissionFailureReported ==
    /\ pc = "finally" /\ emitOutcome = "failed"
    /\ status = "error" /\ lastError \in ErrorMessages
    /\ lastToast = "Conversation failed"

\* C10: once a run that ended because a turn's emission threw has exited, the
\* status is error and the error message is still recorded.
ErrorStatusRetained ==
    (pc = "idle" /\ emitOutcome = "failed") => (status = "error" /\ lastError \in ErrorMessages)

\* C11: the step in which speaker selection fails over to the random choice
\* (the request threw, or its response named no participant) keeps the run
\* going: the status, the recorded error and the toast are unchanged, a
\* participant is chosen and the loop moves on to the checkpoint before the
\* emission; and the turn then emitted is the chosen speaker's.
AfterSelectionPcs == {"chk2", "poll2", "cont2", "chk3", "poll3", "cont3"}

SelectionFailureNotFatal ==
    /\ [][(pc = "selecting" /\ selectPath' = "fallback") =>
            (/\ running' /\ pc' = "chk2"
             /\ status' = status /\ lastError' = lastError /\ lastToast' = lastToast
             /\ nextSpeaker' \in Participants(runConfig))]_vars
    /\ []((selectPath = "fallback" /\ pc \in AfterSelectionPcs) =>
            (running /\ status # "error" /\ lastError = Null /\ emitOutcome # "failed"))
    /\ [][(selectPath = "fallback" /\ pc = "cont3" /\ pc' = "emit") =>
            (/\ Len(messages') = Len(messages) + 1
             /\ messages'[Len(messages')].speakerId = nextSpeaker
             /\ nextSpeaker \in Participants(runConfig))]_vars

FallbackSpeakerAboutToSpeak ==
    /\ pc = "cont3" /\ selectPath = "fallback" /\ runConfig.n = 3
    /\ ~abort /\ ~paused /\ pendingUserMessages = <<>>
    /\ nextSpeaker \in Participants(runConfig) /\ status # "error"


\* C12: once stop() has been called during a turn's streaming call, no
\* emission failure is reported in that run: no error is recorded, no failure
\* toast is shown and the status is completed; a cancelled emission is always
\* one that stop() interrupted.
CancellationSwallowed ==
    /\ stopMark => (/\ emitOutcome # "failed" /\ lastError = Null
                    /\ lastToast # "Conversation failed" /\ status = "completed")
    /\ emitOutcome = "cancelled" => (stopMark /\ lastError = Null /\ status = "completed")

CancelledRunExited ==
    /\ emitOutcome = "cancelled" /\ stopMark /\ pc = "idle" /\ ~running
    /\ status = "completed" /\ lastError = Null
    /\ Len(messages) >= 1 /\ messages[Len(messages)].status # "completed"

\* C13: once stop() has set the abort flag, every network request the engine
\* still has in flight carries an aborted signal.
StopCancelsEveryRequest == abort => requestSignal \in {"none", "aborted"}

\* C14: every start() call made while the status is completed or error, with
\* at least two participants configured, begins a fresh run: the transcript
\* then holds only the new opening message, the status is connecting and the
\* opening turn's request is in flight.  The calls considered are those made
\* while the engine has no request in flight.
StartCall == StartNoop \/ StartRejected \/ StartRun

StartAfterTerminalBeginsRun ==
    [][(/\ status \in {"completed", "error"} /\ config.n >= 2
        /\ requestSignal = "none" /\ StartCall) =>
        (/\ status' = "connecting" /\ Len(messages') = 1
         /\ messages'[1].status = "pending" /\ messages'[1].id \notin {m.id : m \in {messages[i] : i \in 1..Len(messages)}}
         /\ pc' = "emit" /\ stream' = "fetch" /\ sessionId' # sessionId)]_vars

\* C15: a start() call on an engine that is not running, with at least two
\* participants configured, leaves a transcript that holds exactly the new,
\* pending opening message of one of the configured participants, the status
\* connecting, a new session id and the opening request in flight; and no
\* speaker-selection request is issued before the opening message is completed.
StartEffects ==
    /\ [][(~running /\ config.n >= 2 /\ StartCall) =>
            (/\ running' /\ status' = "connecting"
             /\ sessionId' # sessionId /\ sessionId' # 0
             /\ Len(messages') = 1 /\ messages'[1].status = "pending"
             /\ messages'[1].content = <<>>
             /\ messages'[1].speakerId \in Participants(config)
             /\ messages'[1].speakerId = currentSpeaker'
             /\ \A i \in 1..Len(messages) : messages[i].id # messages'[1].id
             /\ pc' = "emit" /\ stream' = "fetch" /\ isFirst' /\ selectPath' = "none")]_vars
    /\ []((running /\ isFirst) => Len(messages) = 1)
    /\ []((pc = "selecting" \/ selectPath # "none") =>
            (Len(messages) >= 1 /\ messages[1].status = "completed"))

SecondRunOpened ==
    /\ sessionId = 2 /\ running /\ pc = "emit" /\ isFirst
    /\ Len(messages) = 1 /\ messages[1].id = 2 /\ messages[1].status = "pending"
    /\ status = "connecting"

\* C16: a start() call on an engine that is not running, with fewer than two
\* participants configured, shows the configuration toast and changes neither
\* the status, the transcript, the session id, the recorded error nor any
\* engine state, and issues no request; the status is never connecting for a
\* run of fewer than two participants.
ConfigurationErrorOnly ==
    /\ [][(~running /\ config.n < 2 /\ StartCall) =>
            (/\ lastToast' = "Configuration incomplete"
             /\ ~running' /\ pc' = "idle" /\ stream' = "none"
             /\ UNCHANGED <<status, messages, sessionId, lastError, engineVars, nextId,
                            activeLoops>>)]_vars
    /\ [](status = "connecting" => (running /\ runConfig.n >= 2))

StartRejectedAfterRun ==
    /\ lastToast = "Configuration incomplete" /\ config.n < 2 /\ ~running
    /\ status = "completed" /\ Len(messages) = 1 /\ sessionId = 1 /\ pc = "idle"

\* C17 (as amended): resume() on a running engine that is paused clears the
\* paused flag and the pause request and sets the status to streaming; on an
\* engine that is not paused it changes neither flag nor the status, so a pause
\* request that has not been applied yet stays pending.  In steps: an ignored
\* resume() found the engine not paused and changed nothing; a paused engine
\* that goes on running unpaused has no pause request left and the status
\* streaming; and outside the start of an emission the status becomes
\* streaming only on a paused engine.
ResumeWhenPaused ==
    /\ [][ignoredCall' = "resume" =>
            (/\ ~(running /\ paused)
             /\ UNCHANGED <<paused, pauseRequested, status, lastError>>)]_vars
    /\ [][(paused /\ ~paused' /\ running' /\ ~abort') =>
            (~pauseRequested' /\ status' = "streaming")]_vars
    /\ [][(status' = "streaming" /\ status # "streaming" /\ pc' = pc) =>
            (running /\ paused)]_vars

ResumedWhilePolling ==
    /\ pc \in {"poll1", "poll2", "poll3"} /\ running /\ ~abort
    /\ ~paused /\ ~pauseRequested /\ status = "streaming"

\* C17 (as stated): every resume() on a running engine clears the paused flag
\* and any pending pause request and leaves the status streaming.
ResumeOnRunningEngine ==
    [][(Resume /\ running) =>
        (~paused' /\ ~pauseRequested' /\ status' = "streaming")]_vars

\* C18: a pause() call that the engine ignores found it not running, already
\* paused or with a pause already requested, and changes no engine field, no
\* store field and no position of the run loop; and a pause request is newly
\* recorded only on a running engine that is not paused, without touching the
\* paused flag or the status.
PauseIdempotent ==
    /\ [][ignoredCall' = "pause" =>
            (/\ ~running \/ paused \/ pauseRequested
             /\ UNCHANGED <<engineVars, storeVars, pc, localVars, streamVars>>)]_vars
    /\ [][(pauseRequested' /\ ~pauseRequested) =>
            (running /\ ~paused /\ UNCHANGED <<paused, status, lastError>>)]_vars
    /\ [](pauseRequested => (running /\ ~paused))

PauseRepeatedWhileStreaming ==
    /\ ignoredCall = "pause" /\ running /\ pauseRequested /\ ~paused
    /\ pc = "emit" /\ stream = "read" /\ status # "paused"

\* C19: the pending slot never holds more than one interjection; a call that
\* fills the slot leaves exactly the new text in it and appends nothing to the
\* history; and a step that drains the slot appends exactly the text the slot
\* held, under the user display name.
SingleSlotInterjection ==
    /\ [](Len(pendingUserMessages) <= 1)
    /\ [][(pendingUserMessages' # pendingUserMessages /\ pendingUserMessages' # <<>>) =>
            (/\ Len(pendingUserMessages') = 1
             /\ history' = history
             /\ \E m \in InterjectionTexts \cup RequeueTexts :
                    pendingUserMessages' = <<Trim(m)>>)]_vars
    /\ [][(history' # history /\ pendingUserMessages' # pendingUserMessages) =>
            (/\ pendingUserMessages' = <<>> /\ Len(pendingUserMessages) = 1
             /\ history' = recordHistoryEntry(history, userDisplayName,
                                              pendingUserMessages[1]))]_vars

historyHasText(text) ==
    \E i \in 1..Len(history) : Contains(history[i], <<":", " ">> \o text)

ReplacedInterjectionDropped ==
    /\ interjections = MaxInterjections + MaxRequeues
    /\ pendingUserMessages = <<>>
    /\ historyHasText(<<"y", "o">>) /\ ~historyHasText(<<"h", "i">>)

\* C20: a queueUserInterjection() call that the engine ignores changes neither
\* the pending interjection, the skip-delay flag, the user display name nor
\* the history; the slot is filled, and the display name changed during a run,
\* only on a running engine and with a text that is not empty after trimming;
\* and nothing is pending on an engine that is not running.
QueueNoop ==
    /\ [][ignoredCall' = "queue" =>
            UNCHANGED <<pendingUserMessages, skipDelayNextTurn, userDisplayName,
                        history>>]_vars
    /\ [][(\/ pendingUserMessages' # pendingUserMessages /\ pendingUserMessages' # <<>>
           \/ userDisplayName' # userDisplayName /\ running) =>
            (/\ running /\ Len(pendingUserMessages') = 1
             /\ Trim(pendingUserMessages'[1]) # <<>>)]_vars
    /\ [](~running => (pendingUserMessages = <<>> /\ ~skipDelayNextTurn))

BlankInterjectionIgnored ==
    /\ ignoredCall = "queue" /\ running /\ pc = "emit"
    /\ pendingUserMessages = <<>> /\ ~skipDelayNextTurn /\ interjections = 0

\* C21: clearPendingInterjection() empties the pending slot without touching
\* the history, so the discarded text never reaches it, and it does not
\* resume: called on a paused engine it leaves the paused flag, the status
\* paused, the transcript and the position of the run loop as they were; a
\* paused engine that has not been stopped sits in a pause poll with the status
\* paused and no turn in flight, and leaves the paused state only with the
\* pending slot untouched (resume) or by being stopped.
Polls == {"poll1", "poll2", "poll3"}

ClearDoesNotResume ==
    /\ [][(paused /\ ~abort /\ ClearPendingInterjection) =>
            (/\ pendingUserMessages' = <<>>
             /\ paused' /\ status' = "paused"
             /\ UNCHANGED <<history, messages, pc, nextId, emitOutcome>>)]_vars
    /\ [][(pendingUserMessages # <<>> /\ pendingUserMessages' = <<>> /\ pc' = pc) =>
            history' = history]_vars
    /\ [][(paused /\ ~abort /\ ~paused') =>
            (abort' \/ (status' = "streaming" /\ UNCHANGED pendingUserMessages))]_vars
    /\ []((paused /\ ~abort) =>
            (pc \in Polls /\ status = "paused" /\ emitOutcome # "inflight"))

InterjectionDiscardedWhilePaused ==
    /\ paused /\ ~abort /\ status = "paused" /\ pc \in Polls
    /\ interjections = 1 /\ pendingUserMessages = <<>>
    /\ ~historyHasText(<<"h", "i">>) /\ history # <<>>

\* C22: the history never holds more than 12 entries; while fewer than 12
\* entries have been appended all of them are kept; and every append leaves
\* the last 12 entries of the old history followed by the new entry, so the
\* oldest entry is the one that goes and the others keep their order.
isHistoryAppend(old, new) ==
    /\ new # <<>>
    /\ LET all == Append(old, new[Len(new)])
       IN new = SubSeq(all, Len(all) - Len(new) + 1, Len(all))

HistoryCapFifo ==
    /\ [](Len(history) = IF historyAppends < HistoryCap THEN historyAppends ELSE HistoryCap)
    /\ [][historyAppends' > historyAppends => isHistoryAppend(history, history')]_vars

OldestEntriesEvicted ==
    /\ historyAppends = HistoryCap + 2 /\ Len(history) = HistoryCap
    /\ interjections = 2 /\ ~historyHasText(<<"y", "o">>)

\* C23: applying the citation sanitizer to its own output changes nothing:
\* for the text x received so far, strip(strip(x)) = strip(x).
SanitizerIdempotent ==
    stripCitationArtifacts(stripCitationArtifacts(collectedText))
        = stripCitationArtifacts(collectedText)

\* C24: on a text without citations and without blanks, the sanitizer does
\* exactly this: every run of three or more newlines becomes two newlines and
\* everything else, a run of exactly two newlines included, stays as it is.
hasNoCitationChars(x) == \A i \in 1..Len(x) : x[i] \in {"a", "\n"}

BlankLineKept ==
    hasNoCitationChars(collectedText) =>
        stripCitationArtifacts(collectedText)
            = ReplaceFrom("newlines", <<"\n", "\n">>, collectedText, 1)

\* C25: while a pause request is pending or the engine is paused, and the run
\* has not been stopped, no step begins a turn (appends a transcript message)
\* and no step issues a speaker-selection request.
PauseHoldsTurns ==
    [][(/\ pauseRequested \/ paused
        /\ running /\ ~abort
        /\ pauseRequested' \/ paused') =>
            (nextId' = nextId /\ (pc' = "selecting" => pc = "selecting"))]_vars

\* C26: from stop() until the run loop has exited, no step begins a turn: no
\* message is appended to the transcript, no streaming request and no
\* non-streaming fallback request is issued, and no speaker-selection request
\* is issued.
StopEndsTurns ==
    [][(abort /\ running) =>
        (/\ nextId' = nextId /\ Len(messages') = Len(messages)
         /\ pc' = "selecting" => pc = "selecting"
         /\ stream' \in {"fetch", "fallback"} => stream' = stream)]_vars

StoppedAfterSelection ==
    /\ abort /\ running /\ pc = "exit"
    /\ selectPath = "match" /\ nextSpeaker # NoSpeaker /\ nextId <= MaxTurns

\* C27: there is never more than one run loop; a streaming call is in flight
\* only inside a turn emission and never together with a speaker-selection
\* request; and a transcript message whose status is not completed is the last
\* message of the transcript, so there is at most one.
OneOperationInFlight ==
    /\ activeLoops <= 1
    /\ stream # "none" => pc = "emit"
    /\ pc = "selecting" => (stream = "none" /\ emitOutcome # "inflight")
    /\ \A i \in 1..Len(messages) :
        messages[i].status # "completed" => i = Len(messages)

SecondTurnStreaming ==
    /\ Len(messages) = 2 /\ stream = "read" /\ pc = "emit"
    /\ messages[1].status = "completed" /\ messages[2].status = "streaming"

\* C28: an interjection queued while a turn is streaming leaves that turn's
\* message, prompt and stream as they were; once the loop has consumed it, and
\* until the user queues another one, it is the last history entry, right
\* after the entry of the turn it arrived in when that turn had content; and
\* the prompt of the next turn ends with it.
lastLineIs(text, line) ==
    /\ Len(text) >= Len(line)
    /\ SubSeq(text, Len(text) - Len(line) + 1, Len(text)) = line
    /\ Len(text) > Len(line) => text[Len(text) - Len(line)] = "\n"

interjectionEntry == userDisplayName \o <<":", " ">> \o interjectText

lastTurnEntry ==
    LET m == messages[Len(messages)]
    IN DisplayNames[m.speakerId] \o <<":", " ">> \o Trim(m.content)

InterjectionFollowsTurn ==
    /\ [][(pc = "emit" /\ pendingUserMessages' # pendingUserMessages
           /\ pendingUserMessages' # <<>>) =>
            (/\ interjectStage' = "midturn"
             /\ UNCHANGED <<messages, lastPrompt, history, streamVars, currentController,
                            pc, localVars, status>>)]_vars
    /\ [](interjectStage = "consumedMid" =>
            (/\ history # <<>> /\ history[Len(history)] = interjectionEntry
             /\ Trim(messages[Len(messages)].content) # <<>> =>
                    (Len(history) >= 2 /\ history[Len(history) - 1] = lastTurnEntry)))
    /\ [](interjectStage = "promptedMid" => lastLineIs(lastPrompt.recent, interjectionEntry))

PromptEndsWithInterjection ==
    /\ interjectStage = "promptedMid" /\ pc = "emit" /\ Len(messages) = 2
    /\ Contains(lastPrompt.recent, <<"\n">> \o interjectionEntry)

\* C29: when the loop comes out of the checkpoint after the selection, or out
\* of the last checkpoint, with an interjection pending (queued during the
\* selection call or during a pause there) and the run not stopped, it appends
\* the interjection to the history and drops the chosen speaker without
\* emitting anything; and a turn after the first is emitted only for a speaker
\* chosen after the last such drop.
SelectedPaths == {"alternate", "match", "fallback"}

InterjectionForcesReselection ==
    /\ [][(pc = "cont2" /\ pendingUserMessages # <<>> /\ ~abort) =>
            (/\ history' = consumedHistory(history, userDisplayName, pendingUserMessages)
             /\ pendingUserMessages' = <<>>
             /\ nextSpeaker' = NoSpeaker /\ pc' = "choose"
             /\ UNCHANGED <<messages, nextId>>)]_vars
    /\ [][(pc = "cont3" /\ pendingUserMessages # <<>> /\ ~abort) =>
            (/\ history' = consumedHistory(history, userDisplayName, pendingUserMessages)
             /\ pendingUserMessages' = <<>>
             /\ pc' = "top" /\ skipDelayNextTurn'
             /\ UNCHANGED <<messages, nextId>>)]_vars
    /\ [][(nextId' > nextId /\ ~isFirst') =>
            (selectPath \in SelectedPaths /\ nextSpeaker # NoSpeaker)]_vars
    /\ [](pc = "choose" => nextSpeaker = NoSpeaker)

ChoiceDroppedForInterjection ==
    /\ pc = "choose" /\ selectPath = "discarded" /\ nextSpeaker = NoSpeaker
    /\ runConfig.n = 3 /\ ~abort /\ ~paused
    /\ history # <<>> /\ history[Len(history)] = userDisplayName \o <<":", " ", "h", "i">>

\* C30: a step in which the stream delivers an error event ends the turn as a
\* failed emission: the error is thrown to the run loop's catch block, and the
\* turn's message is not marked completed.
ErrorEventAbortsTurn ==
    [][StreamErrorEvent =>
        (/\ pc' = "catch" /\ emitOutcome' = "failed" /\ thrown' # ""
         /\ \A i \in 1..Len(messages') :
                messages'[i].id = messageId => messages'[i].status # "completed")]_vars

\* C31: once the status is completed it stays completed in every step, except
\* in the step of a start() that begins a run (which sets it to connecting and
\* assigns a new session id).
CompletedUntilNextStart ==
    [][(status = "completed" /\ status' # "completed") =>
        (status' = "connecting" /\ sessionId' # sessionId /\ ~running /\ running')]_vars

\* C32: a pause request stays pending until a checkpoint applies it, the user
\* withdraws it with clearPendingInterjection() or stop(), or the run ends;
\* and, under fair scheduling of the engine's own steps, every pending request
\* is followed by the paused state (paused flag and paused status), unless the
\* engine is stopped, the request is withdrawn or the run ends in an error.
\* (A request accepted in the last pause poll when the turns explored are used
\* up is left out: the turn that precedes its checkpoint is not explored.)
AtTurnBound == pc \in {"poll3", "cont3"} /\ nextId > MaxTurns

PauseResolved ==
    \/ paused /\ status = "paused"
    \/ abort
    \/ ~running
    \/ ~pauseRequested /\ ~paused

PauseEventuallyApplied ==
    /\ [][(pauseRequested /\ ~pauseRequested') =>
            (\/ paused' /\ status' = "paused" /\ pc \in Checkpoints
             \/ abort'
             \/ ~running'
             \/ pc' = pc /\ pendingUserMessages' = <<>> /\ ~skipDelayNextTurn')]_vars
    /\ (pauseRequested /\ ~AtTurnBound) ~> PauseResolved

PauseAppliedAfterSelection ==
    /\ paused /\ status = "paused" /\ pc = "poll2" /\ ~abort
    /\ selectPath \in {"match", "fallback"}

\* C33: under fair scheduling of the engine's own steps (timers fire, calls in
\* flight return or reject), whenever stop() has set the abort flag on a
\* running engine the run loop exits: the engine reaches the idle position
\* with isRunning() false.
StopEventuallyExits == (abort /\ running) ~> (~running /\ pc = "idle" /\ activeLoops = 0)

StoppedWhilePolling ==
    /\ abort /\ running /\ pc \in Polls /\ ~paused
    /\ status = "completed" /\ activeLoops = 1

\* C34: in every reachable state the engine's paused flag is set exactly when
\* the status of the session store is paused.
PausedFlagMatchesStatus == paused <=> (status = "paused")

PausedWithInterjectionPending ==
    /\ paused /\ status = "paused" /\ pc = "poll3" /\ ~abort
    /\ pendingUserMessages # <<>>

\* C35: whenever the engine is not running, the paused, pause-requested and
\* abort flags are false, no interjection is pending, the skip-delay flag is
\* false and there is no cancellation handle.
IdleEngineIsClean ==
    ~running =>
        (/\ ~paused /\ ~pauseRequested /\ ~abort
         /\ pendingUserMessages = <<>> /\ ~skipDelayNextTurn
         /\ currentController = "null"
         /\ pc = "idle" /\ activeLoops = 0)

CleanAfterFailedRun ==
    /\ ~running /\ pc = "idle" /\ emitOutcome = "failed" /\ interjections > 0
    /\ ~paused /\ ~pauseRequested /\ ~abort /\ currentController = "null"
    /\ lastToast = "Configuration incomplete"

\* C36: a clearPendingInterjection() call made while a pause request is
\* pending and not yet applied withdraws the request without pausing or
\* changing the status; the engine becomes paused only at a checkpoint that
\* finds a request pending, and a checkpoint that finds none lets the loop go
\* on; so after a request was withdrawn (and no new pause() was accepted) the
\* engine is not paused and has no request pending.
CancelWithdrawsPause ==
    /\ [][(pauseRequested /\ ~paused /\ ClearPendingInterjection) =>
            (~pauseRequested' /\ ~paused' /\ status' = status /\ pc' = pc)]_vars
    /\ [][(paused' /\ ~paused) => (pauseRequested /\ pc \in Checkpoints)]_vars
    /\ [][(pc \in Checkpoints /\ ~pauseRequested /\ ~paused) =>
            (~paused' /\ status' # "paused" /\ pc' \in {"cont1", "cont2", "cont3"})]_vars
    /\ [](pauseMark = Withdrawn => (~pauseRequested /\ ~paused /\ status # "paused"))

NextTurnAfterWithdrawnPause ==
    /\ pauseMark = Withdrawn /\ pc = "emit" /\ ~isFirst /\ Len(messages) = 2
    /\ status = "streaming" /\ ~paused /\ ~pauseRequested

\* C37: whenever a turn is emitted right after an interjection was consumed
\* into the history, its prompt carries the instruction to address the user
\* by the name the interjection is recorded under.
InterjectionAlwaysAddressed ==
    interjectStage \in {"prompted", "promptedMid"} =>
        (lastPrompt.address # NoName /\ lastPrompt.address = userDisplayName)

\* C38: start() empties the history; the history changes only when an
\* interjection is consumed (one entry for it) or when an assistant turn
\* finishes with content that is not blank (one entry for it, appended under
\* the cap); and a turn that is cancelled by stop(), fails, or is ended by an
\* error event of the stream leaves the history as it was.
HistoryExactEntries ==
    /\ [][(running' /\ ~running) => history' = <<>>]_vars
    /\ [][(history' # history /\ running) =>
            (\/ /\ pc \in {"cont1", "cont2", "cont3"} /\ pendingUserMessages # <<>>
                /\ history' = consumedHistory(history, userDisplayName, pendingUserMessages)
             \/ /\ pc = "emit" /\ emitOutcome' = "completed"
                /\ Trim(contentOf(messages', messageId)) # <<>>
                /\ history' = recordHistoryEntry(history, DisplayNames[EmitSpeaker],
                                                 contentOf(messages', messageId)))]_vars
    /\ [][(pc = "emit" /\ emitOutcome' \in {"cancelled", "failed"}) => history' = history]_vars
    /\ [][(pc = "emit" /\ stream = "read" /\ history' # history) => ~StreamErrorEvent]_vars

\* C39: an interjection makes the loop skip only the inter-turn delay before
\* the turn that replies to it: when the loop comes back to its top after
\* that reply turn, no new interjection having been queued, it waits the
\* inter-turn delay before the following turn.
DelayResumesAfterReply ==
    [][(pc = "top" /\ ~abort /\ interjectStage \in {"prompted", "promptedMid"}
        /\ pendingUserMessages = <<>>) => pc' = "delay"]_vars

\* C40: in a run of three or more participants, when the text before the
\* first "|" of the decision response, with the white space at its ends
\* removed, equals a participant's display name up to the case of the
\* letters, that participant is the selected speaker, the current speaker
\* included; for every other response the random fallback is used, which
\* picks a participant other than the current speaker.
SameLetter(a, b) == a = b \/ {a, b} \in {{"A", "a"}, {"B", "b"}, {"C", "c"}, {"Z", "z"}}

EqualIgnoringCase(s, t) == Len(s) = Len(t) /\ \A i \in 1..Len(s) : SameLetter(s[i], t[i])

TextBeforePipe(s) ==
    LET pipes == {k \in 1..Len(s) : s[k] = "|"}
    IN IF pipes = {} THEN s
       ELSE SubSeq(s, 1, (CHOOSE k \in pipes : \A m \in pipes : k <= m) - 1)

TrimmedOf(s) ==
    LET solid == {i \in 1..Len(s) : ~IsSpace(s[i])}
    IN IF solid = {} THEN <<>>
       ELSE SubSeq(s, CHOOSE i \in solid : \A m \in solid : i <= m,
                      CHOOSE j \in solid : \A m \in solid : m <= j)

NamedByResponse ==
    {q \in Participants(runConfig) :
        EqualIgnoringCase(DisplayNames[q], TrimmedOf(TextBeforePipe(collectedText)))}

SelectorFollowsResponse ==
    (pc = "chk2" /\ runConfig.n >= 3) =>
        IF NamedByResponse # {}
        THEN selectPath = "match" /\ nextSpeaker \in NamedByResponse
        ELSE /\ selectPath = "fallback"
             /\ nextSpeaker \in Participants(runConfig) \ {currentSpeaker}

CurrentSpeakerNamedAgain ==
    /\ pc = "chk2" /\ runConfig.n = 3 /\ selectPath = "match"
    /\ collectedText = <<" ", "a", "|">>
    /\ currentSpeaker = 1 /\ nextSpeaker = currentSpeaker

====
